---- MODULE Spec2Model ----
(***************************************************************************)
(* File Organizer Automation (src/app.py): the classification table, the   *)
(* organize / undo / preview engines and the folder they act on.           *)
(*                                                                         *)
(* File names are sequences of one-character strings, so that extension    *)
(* extraction, lowercasing and the collision renaming are computed as the  *)
(* code computes them. The folder is a root directory whose direct         *)
(* children are regular files and the category directories; every regular  *)
(* file carries an identity (a number) so that loss and overwriting show.  *)
(***************************************************************************)
EXTENDS Integers, Sequences, FiniteSets, TLC

VARIABLES
  rootExists,   \* os.path.exists(source_folder)
  rootFiles,    \* regular files directly under the root: name -> identity
  catDirs,      \* categories whose folder exists as a directory under the root
  catFiles,     \* category -> (name -> identity) of the regular files inside it
  pc,           \* position of the running call ("idle" between calls)
  files,        \* organize_files: the listing `files`
  all_files,    \* undo_organize_files: the listing `all_files`
  idx,          \* 1-based position of the loop over the listing
  stats,        \* the `stats` dict of the running call
  result,       \* what the last finished call returned (or that it raised)
  cbLog,        \* progress_callback invocations of the current call, in order
  moves,        \* shutil.move attempts of the current call, in order
  created,      \* category folders os.makedirs created in the current call
  rmFailed,     \* category folders whose os.rmdir failed in the current call
  before,       \* the folder as it was when the current call started
  prev,         \* the call before the current one: op, result, moves, ...
  op,           \* the current (or last finished) call: organize, undo, preview
  faults,       \* moves, mkdirs and rmdirs the environment has made fail
  callsLeft     \* calls the session still makes

vars == <<rootExists, rootFiles, catDirs, catFiles, pc, files, all_files, idx,
          stats, result, cbLog, moves, created, rmFailed, before, prev, op,
          faults, callsLeft>>

(***************************************************************************)
(* Bounds of the model.                                                    *)
(***************************************************************************)
MaxFiles == 2   \* regular files directly under the root in the initial folder
MaxCalls == 2   \* organize / undo / preview calls in one behaviour
MaxFaults == 1  \* failures the environment injects in one behaviour

(***************************************************************************)
(* FILE_CATEGORIES, in the dict's insertion order.                         *)
(***************************************************************************)
CategoryOrder ==
  <<"Images", "Documents", "Videos", "Audio", "Archives", "Programs",
    "Executables", "Others">>

CategoryNames == {CategoryOrder[i] : i \in 1..Len(CategoryOrder)}

FILE_CATEGORIES ==
  [Images |->
     {<<".","j","p","g">>, <<".","j","p","e","g">>,
      <<".","p","n","g">>, <<".","g","i","f">>,
      <<".","b","m","p">>, <<".","s","v","g">>,
      <<".","i","c","o">>, <<".","w","e","b","p">>},
   Documents |->
     {<<".","p","d","f">>, <<".","d","o","c">>,
      <<".","d","o","c","x">>, <<".","t","x","t">>,
      <<".","x","l","s">>, <<".","x","l","s","x">>,
      <<".","p","p","t">>, <<".","p","p","t","x">>,
      <<".","o","d","t">>, <<".","c","s","v">>},
   Videos |->
     {<<".","m","p","4">>, <<".","m","k","v">>,
      <<".","f","l","v">>, <<".","a","v","i">>,
      <<".","m","o","v">>, <<".","w","m","v">>,
      <<".","w","e","b","m">>},
   Audio |->
     {<<".","m","p","3">>, <<".","w","a","v">>,
      <<".","a","a","c">>, <<".","f","l","a","c">>,
      <<".","m","4","a">>, <<".","w","m","a">>},
   Archives |->
     {<<".","z","i","p">>, <<".","r","a","r">>,
      <<".","t","a","r">>, <<".","g","z">>, <<".","7","z">>,
      <<".","b","z","2">>},
   Programs |->
     {<<".","p","y">>, <<".","c">>, <<".","c","p","p">>,
      <<".","j","a","v","a">>, <<".","h","t","m","l">>,
      <<".","c","s","s">>, <<".","j","s">>, <<".","p","h","p">>,
      <<".","j","s","o","n">>, <<".","x","m","l">>},
   Executables |->
     {<<".","e","x","e">>, <<".","m","s","i">>,
      <<".","a","p","k">>, <<".","a","p","p">>,
      <<".","b","a","t">>, <<".","s","h">>},
   Others |->
     {}]

\* The path component os.path.join(source_folder, category) adds for a category.
DirName(c) ==
  CASE c = "Images" -> <<"I","m","a","g","e","s">>
    [] c = "Documents" -> <<"D","o","c","u","m","e","n","t","s">>
    [] c = "Videos" -> <<"V","i","d","e","o","s">>
    [] c = "Audio" -> <<"A","u","d","i","o">>
    [] c = "Archives" -> <<"A","r","c","h","i","v","e","s">>
    [] c = "Programs" -> <<"P","r","o","g","r","a","m","s">>
    [] c = "Executables" -> <<"E","x","e","c","u","t","a","b","l","e","s">>
    [] c = "Others" -> <<"O","t","h","e","r","s">>

(***************************************************************************)
(* Strings: str.lower, os.path.splitext, the f-string of the renaming.     *)
(***************************************************************************)
Min(S) == CHOOSE x \in S : \A y \in S : x <= y

Max(S) == CHOOSE x \in S : \A y \in S : x >= y

\* The letters str.lower() changes (the names here are ASCII).
LowerMap ==
  [A |-> "a", B |-> "b", C |-> "c", D |-> "d", E |-> "e", F |-> "f",
   G |-> "g", H |-> "h", I |-> "i", J |-> "j", K |-> "k", L |-> "l",
   M |-> "m", N |-> "n", O |-> "o", P |-> "p", Q |-> "q", R |-> "r",
   S |-> "s", T |-> "t", U |-> "u", V |-> "v", W |-> "w", X |-> "x",
   Y |-> "y", Z |-> "z"]

LowerChar(ch) == IF ch \in DOMAIN LowerMap THEN LowerMap[ch] ELSE ch

\* str.lower()
Lower(s) == [i \in 1..Len(s) |-> LowerChar(s[i])]

\* Variant: the extension taken from the first dot on.
MutSplitExtFirstDot(p) ==
  LET dots == {i \in 1..Len(p) : p[i] = "."}
  IN  IF dots = {} THEN <<p, <<>>>>
      ELSE <<SubSeq(p, 1, Min(dots) - 1), SubSeq(p, Min(dots), Len(p))>>

\* os.path.splitext on a bare file name: the extension starts at the last dot,
\* unless only dots precede that dot (then the name has no extension).
SplitExt(p) ==
  LET dots     == {i \in 1..Len(p) : p[i] = "."}
      dotIndex == IF dots = {} THEN 0 ELSE Max(dots)
      nonDot   == {i \in 1..(dotIndex - 1) : p[i] # "."}
  IN  IF dotIndex > 0 /\ nonDot # {}
        THEN <<SubSeq(p, 1, dotIndex - 1), SubSeq(p, dotIndex, Len(p))>>
        ELSE <<p, <<>>>>

Digits == <<"0","1","2","3","4","5","6","7","8","9">>

\* str(counter) as the f-string formats it: decimal, no padding.
RECURSIVE Str(_)
Str(n) ==
  IF n < 10 THEN <<Digits[n + 1]>>
  ELSE Str(n \div 10) \o <<Digits[(n % 10) + 1]>>

(***************************************************************************)
(* get_file_category                                                       *)
(***************************************************************************)
get_file_category(file_ext) ==
  LET e    == Lower(file_ext)
      hits == {i \in 1..Len(CategoryOrder) :
                 e \in FILE_CATEGORIES[CategoryOrder[i]]}
  IN  IF hits = {} THEN "Others" ELSE CategoryOrder[Min(hits)]

\* file_ext = os.path.splitext(filename)[1].lower(); get_file_category(file_ext)
CategoryOf(filename) == get_file_category(Lower(SplitExt(filename)[2]))

(***************************************************************************)
(* The folder: os.path.exists / isfile / isdir / listdir on it.            *)
(***************************************************************************)
NoFiles == [n \in {} |-> 0]

Put(f, k, v) == [x \in (DOMAIN f) \cup {k} |-> IF x = k THEN v ELSE f[x]]

Drop(f, k) == [x \in (DOMAIN f) \ {k} |-> f[x]]

\* All orders in which os.listdir may return the members of S.
Perms(S) ==
  {s \in [1..Cardinality(S) -> S] :
     \A i, j \in 1..Cardinality(S) : i # j => s[i] # s[j]}

\* os.path.exists(os.path.join(source_folder, name))
RootEntryExists(name) ==
  \/ name \in DOMAIN rootFiles
  \/ \E c \in catDirs : DirName(c) = name

\* os.path.exists(os.path.join(source_folder, category, name)): false as well
\* when source_folder/category is missing or is a regular file.
DestExists(category, name) ==
  category \in catDirs /\ name \in DOMAIN catFiles[category]

\* Variant: the existence check left out.
MutRootMissingNever == FALSE

\* not os.path.exists(source_folder)
RootMissing == ~rootExists

Folder ==
  [rootExists |-> rootExists, rootFiles |-> rootFiles, catDirs |-> catDirs,
   catFiles |-> catFiles]

(***************************************************************************)
(* Collision renaming.                                                     *)
(***************************************************************************)
RECURSIVE OrganizeProbe(_, _, _, _)
OrganizeProbe(category, base, ext, counter) ==
  LET new_filename == base \o <<"_">> \o Str(counter) \o ext
  IN  IF DestExists(category, new_filename)
        THEN OrganizeProbe(category, base, ext, counter + 1)
        ELSE new_filename

\* Variant: the destination taken without looking whether it exists.
MutOrganizeDestNoCheck(category, filename) == filename

\* organize_files: the name the file gets inside source_folder/category
OrganizeDest(category, filename) ==
  IF DestExists(category, filename)
    THEN OrganizeProbe(category, SplitExt(filename)[1], SplitExt(filename)[2], 1)
    ELSE filename

RECURSIVE UndoProbe(_, _, _)
UndoProbe(base, ext, counter) ==
  LET new_filename ==
        base \o <<"_","r","e","s","t","o","r","e","d","_">> \o Str(counter) \o ext
  IN  IF RootEntryExists(new_filename)
        THEN UndoProbe(base, ext, counter + 1)
        ELSE new_filename

\* Variants: undo renaming as organize does; undo renaming every file.
RECURSIVE MutUndoProbeOrganizeStyle(_, _, _)
MutUndoProbeOrganizeStyle(base, ext, counter) ==
  LET new_filename == base \o <<"_">> \o Str(counter) \o ext
  IN  IF RootEntryExists(new_filename)
        THEN MutUndoProbeOrganizeStyle(base, ext, counter + 1)
        ELSE new_filename

MutUndoDestOrganizeStyle(filename) ==
  IF RootEntryExists(filename)
    THEN MutUndoProbeOrganizeStyle(SplitExt(filename)[1], SplitExt(filename)[2], 1)
    ELSE filename

MutUndoDestAlwaysRenames(filename) ==
  UndoProbe(SplitExt(filename)[1], SplitExt(filename)[2], 1)

\* undo_organize_files: the name the file gets back in source_folder
UndoDest(filename) ==
  IF RootEntryExists(filename)
    THEN UndoProbe(SplitExt(filename)[1], SplitExt(filename)[2], 1)
    ELSE filename

(***************************************************************************)
(* Call bookkeeping (history for the properties; not program state).       *)
(***************************************************************************)
\* No two regular files of the folder (under the root or in a category folder)
\* bear the same name.
NamesDistinct(folder) ==
  /\ \A c \in CategoryNames :
       (DOMAIN folder.catFiles[c]) \cap (DOMAIN folder.rootFiles) = {}
  /\ \A c, d \in CategoryNames :
       c # d => (DOMAIN folder.catFiles[c]) \cap (DOMAIN folder.catFiles[d]) = {}

\* What is kept of a finished call: its op, the kind of its result, what it
\* skipped, the moves that succeeded and the folders it created.
LastCall ==
  [op |-> op, kind |-> result.kind,
   skipped |-> IF result.kind = "stats" THEN result.stats.skipped_files ELSE 0,
   moved |-> {[name |-> moves[i].name, dest |-> moves[i].dest, id |-> moves[i].id] :
                i \in {j \in 1..Len(moves) : moves[j].ok}},
   created |-> created,
   clean |-> NamesDistinct(before)]

\* A call starts: remember the one before it and the folder as it is now.
Begin(o) ==
  /\ pc = "idle"
  /\ callsLeft > 0
  /\ callsLeft' = callsLeft - 1
  /\ op' = o
  /\ prev' = LastCall
  /\ before' = Folder
  /\ cbLog' = <<>>
  /\ moves' = <<>>
  /\ rmFailed' = {}

\* The locals of a call that returns before it lists anything.
NoLocals ==
  /\ files' = <<>>
  /\ all_files' = <<>>
  /\ stats' = [total_files |-> 0]
  /\ created' = {}

(***************************************************************************)
(* organize_files                                                          *)
(***************************************************************************)
\* lines 49-50: the folder does not exist
OrganizeNotFound ==
  /\ RootMissing
  /\ Begin("organize")
  /\ NoLocals
  /\ result' = [kind |-> "error"]
  /\ UNCHANGED <<rootExists, rootFiles, catDirs, catFiles, pc, idx, faults>>

\* needed_categories of the first pass
NeededCategories(listing) ==
  {CategoryOf(listing[i]) : i \in 1..Len(listing)}

\* lines 66-69: the folders os.makedirs is called for
ToCreate(needed) ==
  {c \in needed : ~(c \in catDirs \/ DirName(c) \in DOMAIN rootFiles)}

\* Variant: line 56 left out.
MutOrganizeStats0NoTotal(listing) ==
  [total_files |-> 0, moved_files |-> 0, skipped_files |-> 0,
   categories |-> [c \in NeededCategories(listing) |-> 0], errors |-> <<>>]

\* lines 40-46, 56, 70
OrganizeStats0(listing) ==
  [total_files |-> Len(listing), moved_files |-> 0, skipped_files |-> 0,
   categories |-> [c \in NeededCategories(listing) |-> 0], errors |-> <<>>]

\* lines 40-70, every os.makedirs succeeding
OrganizeStart ==
  /\ ~RootMissing
  /\ Begin("organize")
  /\ \E listing \in Perms(DOMAIN rootFiles) :
       /\ files' = listing
       /\ stats' = OrganizeStats0(listing)
       /\ created' = ToCreate(NeededCategories(listing))
       /\ catDirs' = catDirs \cup ToCreate(NeededCategories(listing))
  /\ all_files' = <<>>
  /\ idx' = 1
  /\ pc' = "organize_progress"
  /\ UNCHANGED <<rootExists, rootFiles, catFiles, result, faults>>

\* lines 40-69, one os.makedirs raising: nothing catches it. The set is walked
\* in any order, so any of the other folders may have been created before.
OrganizeMkdirRaises ==
  /\ ~RootMissing
  /\ faults < MaxFaults
  /\ Begin("organize")
  /\ \E listing \in Perms(DOMAIN rootFiles) :
       /\ files' = listing
       /\ stats' = OrganizeStats0(listing)
       /\ \E bad \in ToCreate(NeededCategories(listing)) :
          \E done \in SUBSET (ToCreate(NeededCategories(listing)) \ {bad}) :
            /\ created' = done
            /\ catDirs' = catDirs \cup done
  /\ result' = [kind |-> "raised"]
  /\ faults' = faults + 1
  /\ all_files' = <<>>
  /\ UNCHANGED <<rootExists, rootFiles, catFiles, idx, pc>>

\* Variant: the callback given the 0-based index.
MutOrganizeProgressZeroBased ==
  /\ pc = "organize_progress"
  /\ idx <= Len(files)
  /\ cbLog' = Append(cbLog, <<idx - 1, Len(files), files[idx]>>)
  /\ pc' = "organize_move"
  /\ UNCHANGED <<rootExists, rootFiles, catDirs, catFiles, files, all_files,
                 idx, stats, result, moves, created, rmFailed, before, prev,
                 op, faults, callsLeft>>

\* lines 77-78; the app always passes a callback (lines 285, 345)
OrganizeProgress ==
  /\ pc = "organize_progress"
  /\ idx <= Len(files)
  /\ cbLog' = Append(cbLog, <<idx, Len(files), files[idx]>>)
  /\ pc' = "organize_move"
  /\ UNCHANGED <<rootExists, rootFiles, catDirs, catFiles, files, all_files,
                 idx, stats, result, moves, created, rmFailed, before, prev,
                 op, faults, callsLeft>>

\* Variant: the except branch not counting the file as skipped.
MutStatsOnErrorNoCount(s, filename) ==
  [s EXCEPT !.errors = Append(@, filename)]

\* lines 103-105 (and 158-160): the except branch
StatsOnError(s, filename) ==
  [s EXCEPT !.errors = Append(@, filename), !.skipped_files = @ + 1]

\* Variant: line 101 left out.
MutStatsOnMovedNoCategory(s, category) ==
  [s EXCEPT !.moved_files = @ + 1]

\* lines 100-101
StatsOnMoved(s, category) ==
  [s EXCEPT !.moved_files = @ + 1, !.categories[category] = @ + 1]

\* shutil.move(file_path, dest_path) can succeed only into an existing
\* directory; the environment may make it fail besides.
MoveOutcomes(parentIsDir) ==
  {ok \in BOOLEAN : /\ ok => parentIsDir
                    /\ (~ok /\ parentIsDir) => faults < MaxFaults}

\* lines 80-105; a failed move leaves the file where it is
OrganizeMove ==
  /\ pc = "organize_move"
  /\ LET filename == files[idx]
         category == CategoryOf(filename)
         dest     == OrganizeDest(category, filename)
         taken    == IF category \in catDirs THEN DOMAIN catFiles[category] ELSE {}
     IN  \E ok \in MoveOutcomes(category \in catDirs) :
           /\ moves' = Append(moves, [name |-> filename, category |-> category,
                                      dest |-> dest, id |-> rootFiles[filename],
                                      taken |-> taken, ok |-> ok])
           /\ faults' = IF ~ok /\ category \in catDirs THEN faults + 1 ELSE faults
           /\ IF ok
                THEN /\ rootFiles' = Drop(rootFiles, filename)
                     /\ catFiles' = [catFiles EXCEPT ![category] =
                                       Put(@, dest, rootFiles[filename])]
                     /\ stats' = StatsOnMoved(stats, category)
                ELSE /\ stats' = StatsOnError(stats, filename)
                     /\ UNCHANGED <<rootFiles, catFiles>>
  /\ idx' = idx + 1
  /\ pc' = "organize_progress"
  /\ UNCHANGED <<rootExists, catDirs, files, all_files, result, cbLog, created,
                 rmFailed, before, prev, op, callsLeft>>

\* line 107
OrganizeReturn ==
  /\ pc = "organize_progress"
  /\ idx > Len(files)
  /\ result' = [kind |-> "stats", stats |-> stats]
  /\ pc' = "idle"
  /\ UNCHANGED <<rootExists, rootFiles, catDirs, catFiles, files, all_files,
                 idx, stats, cbLog, moves, created, rmFailed, before, prev, op,
                 faults, callsLeft>>

(***************************************************************************)
(* undo_organize_files                                                     *)
(***************************************************************************)
\* lines 122-123
UndoNotFound ==
  /\ RootMissing
  /\ Begin("undo")
  /\ NoLocals
  /\ result' = [kind |-> "error"]
  /\ UNCHANGED <<rootExists, rootFiles, catDirs, catFiles, pc, idx, faults>>

\* lines 126-134: the category folders in table order, each listed in any order
RECURSIVE UndoListings(_)
UndoListings(i) ==
  IF i > Len(CategoryOrder) THEN {<<>>}
  ELSE LET cat  == CategoryOrder[i]
           here == IF cat \in catDirs
                     THEN {[category |-> cat, name |-> n] : n \in DOMAIN catFiles[cat]}
                     ELSE {}
       IN  {first \o rest : first \in Perms(here), rest \in UndoListings(i + 1)}

\* lines 114-119, 136
UndoStats0(listing) ==
  [total_files |-> Len(listing), moved_files |-> 0, skipped_files |-> 0,
   errors |-> <<>>]

\* lines 114-136
UndoStart ==
  /\ ~RootMissing
  /\ Begin("undo")
  /\ \E listing \in UndoListings(1) :
       /\ all_files' = listing
       /\ stats' = UndoStats0(listing)
  /\ files' = <<>>
  /\ created' = {}
  /\ idx' = 1
  /\ pc' = "undo_progress"
  /\ UNCHANGED <<rootExists, rootFiles, catDirs, catFiles, result, faults>>

\* lines 140-141
UndoProgress ==
  /\ pc = "undo_progress"
  /\ idx <= Len(all_files)
  /\ cbLog' = Append(cbLog, <<idx, Len(all_files), all_files[idx].name>>)
  /\ pc' = "undo_move"
  /\ UNCHANGED <<rootExists, rootFiles, catDirs, catFiles, files, all_files,
                 idx, stats, result, moves, created, rmFailed, before, prev,
                 op, faults, callsLeft>>

\* line 157
UndoStatsOnMoved(s) == [s EXCEPT !.moved_files = @ + 1]

\* lines 143-160; a failed move leaves the file where it is
UndoMove ==
  /\ pc = "undo_move"
  /\ LET file_path == all_files[idx]
         filename  == file_path.name
         id        == catFiles[file_path.category][filename]
         dest      == UndoDest(filename)
         taken     == (DOMAIN rootFiles) \cup {DirName(c) : c \in catDirs}
     IN  \E ok \in MoveOutcomes(TRUE) :
           /\ moves' = Append(moves, [name |-> filename,
                                      category |-> file_path.category,
                                      dest |-> dest, id |-> id,
                                      taken |-> taken, ok |-> ok])
           /\ faults' = IF ok THEN faults ELSE faults + 1
           /\ IF ok
                THEN /\ catFiles' = [catFiles EXCEPT ![file_path.category] =
                                       Drop(@, filename)]
                     /\ rootFiles' = Put(rootFiles, dest, id)
                     /\ stats' = UndoStatsOnMoved(stats)
                ELSE /\ stats' = StatsOnError(stats, filename)
                     /\ UNCHANGED <<rootFiles, catFiles>>
  /\ idx' = idx + 1
  /\ pc' = "undo_progress"
  /\ UNCHANGED <<rootExists, catDirs, files, all_files, result, cbLog, created,
                 rmFailed, before, prev, op, callsLeft>>

\* lines 163-168: the category folders that are directories and list empty
EmptyCategoryDirs == {c \in catDirs : DOMAIN catFiles[c] = {}}

\* lines 162-174: os.rmdir may fail on any of them; the failure is swallowed
UndoCleanupReturn ==
  /\ pc = "undo_progress"
  /\ idx > Len(all_files)
  /\ \E failing \in SUBSET EmptyCategoryDirs :
       /\ faults + Cardinality(failing) <= MaxFaults
       /\ faults' = faults + Cardinality(failing)
       /\ rmFailed' = failing
       /\ catDirs' = catDirs \ (EmptyCategoryDirs \ failing)
  /\ result' = [kind |-> "stats", stats |-> stats]
  /\ pc' = "idle"
  /\ UNCHANGED <<rootExists, rootFiles, catFiles, files, all_files, idx, stats,
                 cbLog, moves, created, before, prev, op, callsLeft>>

(***************************************************************************)
(* preview_organization                                                    *)
(***************************************************************************)
\* lines 186-192: the files of each category, in listing order
PreviewOf(listing) ==
  [c \in NeededCategories(listing) |->
     SelectSeq(listing, LAMBDA f : CategoryOf(f) = c)]

\* lines 176-194
Preview ==
  /\ Begin("preview")
  /\ NoLocals
  /\ IF RootMissing
       THEN result' = [kind |-> "none"]
       ELSE \E listing \in Perms(DOMAIN rootFiles) :
              result' = [kind |-> "preview", preview |-> PreviewOf(listing)]
  /\ UNCHANGED <<rootExists, rootFiles, catDirs, catFiles, pc, idx, faults>>

(***************************************************************************)
(* The folders a call may be given.                                        *)
(***************************************************************************)
\* File names that may lie directly under the root; a file's identity is its
\* position here.
NameUniverse ==
  << <<"a",".","t","x","t">>,
     <<"O","t","h","e","r","s">>,
     <<"X",".","J","P","G">>,
     <<"n","o","t","e","s">>,
     <<"a","r","c","h","i","v","e",".","t","a","r",".","g","z">>,
     <<".","p","y">> >>

\* Files that may already lie in a category folder (an earlier run, or put
\* there by hand); the folder holds the first k of them.
PrePlaced ==
  << [category |-> "Documents", name |-> <<"a",".","t","x","t">>],
     [category |-> "Images",    name |-> <<"a",".","t","x","t">>],
     [category |-> "Documents", name |-> <<"a","_","1",".","t","x","t">>] >>

InitFolder(R, P) ==
  /\ rootExists = TRUE
  /\ rootFiles = [n \in {NameUniverse[i] : i \in R} |->
                    CHOOSE i \in R : NameUniverse[i] = n]
  /\ catDirs = {PrePlaced[k].category : k \in P}
  /\ catFiles = [c \in CategoryNames |->
                   [n \in {PrePlaced[k].name : k \in {j \in P : PrePlaced[j].category = c}} |->
                      Len(NameUniverse) +
                        (CHOOSE k \in P : PrePlaced[k].category = c /\ PrePlaced[k].name = n)]]

InitMissing ==
  /\ rootExists = FALSE
  /\ rootFiles = NoFiles
  /\ catDirs = {}
  /\ catFiles = [c \in CategoryNames |-> NoFiles]

\* A session of n calls on a folder holding some of the first m names of
\* NameUniverse (at most MaxFiles of them) and the first k <= p of PrePlaced,
\* or on a folder that does not exist.
InitSession(m, p, n) ==
  /\ \/ InitMissing
     \/ \E R \in SUBSET (1..m) :
        \E k \in 0..p :
          /\ Cardinality(R) <= MaxFiles
          /\ InitFolder(R, 1..k)
  /\ pc = "idle"
  /\ files = <<>>
  /\ all_files = <<>>
  /\ idx = 0
  /\ stats = [total_files |-> 0]
  /\ result = [kind |-> "nothing"]
  /\ cbLog = <<>>
  /\ moves = <<>>
  /\ created = {}
  /\ rmFailed = {}
  /\ before = [rootExists |-> rootExists, rootFiles |-> rootFiles,
               catDirs |-> catDirs, catFiles |-> catFiles]
  /\ prev = [op |-> "none"]
  /\ op = "none"
  /\ faults = 0
  /\ callsLeft = n

\* Sessions of up to MaxCalls calls.
Init == InitSession(2, 2, MaxCalls)

\* One call, on any of the folders.
InitCall == InitSession(Len(NameUniverse), Len(PrePlaced), 1)

Next ==
  \/ OrganizeNotFound
  \/ OrganizeStart
  \/ OrganizeMkdirRaises
  \/ OrganizeProgress
  \/ OrganizeMove
  \/ OrganizeReturn
  \/ UndoNotFound
  \/ UndoStart
  \/ UndoProgress
  \/ UndoMove
  \/ UndoCleanupReturn
  \/ Preview

Spec == Init /\ [][Next]_vars

SpecCall == InitCall /\ [][Next]_vars

(***************************************************************************)
(* Properties.                                                             *)
(***************************************************************************)
\* The call `o` has returned its count-based result.
Returned(o) == pc = "idle" /\ op = o /\ result.kind = "stats"

\* Where the regular files of a folder lie, and which file lies where.
Locations(folder) ==
  {<<"", n>> : n \in DOMAIN folder.rootFiles}
    \cup UNION {{<<c, n>> : n \in DOMAIN folder.catFiles[c]} : c \in CategoryNames}

IdAt(folder, loc) ==
  IF loc[1] = "" THEN folder.rootFiles[loc[2]] ELSE folder.catFiles[loc[1]][loc[2]]

IdsOf(folder) == {IdAt(folder, loc) : loc \in Locations(folder)}

OkMoves == {k \in 1..Len(moves) : moves[k].ok}

RECURSIVE SumOver(_, _)
SumOver(f, S) ==
  IF S = {} THEN 0
  ELSE LET x == CHOOSE y \in S : TRUE IN f[x] + SumOver(f, S \ {x})

\* C1: during and after every call of a session, every file that was in the
\* folder when the call started is still there, at exactly one location, and
\* no move was aimed at a name already taken in its destination directory.
C1_NoLossNoOverwrite ==
  /\ \A i \in IdsOf(before) :
       Cardinality({loc \in Locations(Folder) : IdAt(Folder, loc) = i}) = 1
  /\ \A k \in 1..Len(moves) : moves[k].dest \notin moves[k].taken

\* C1 witness: an undo that followed an organize which had to rename a file,
\* with one of the undo's moves failing.
C1_Witness ==
  /\ Returned("undo")
  /\ prev.op = "organize"
  /\ \E m \in prev.moved : m.dest # m.name
  /\ result.stats.skipped_files >= 1
  /\ result.stats.moved_files >= 1

\* The suffix of a name from its last dot on (empty when it has no dot).
LastDotSuffix(name) ==
  LET dots == {i \in 1..Len(name) : name[i] = "."}
  IN  IF dots = {} THEN <<>>
      ELSE SubSeq(name, CHOOSE i \in dots : \A j \in dots : j <= i, Len(name))

\* The same, but empty when nothing other than dots precedes the last dot.
ExtensionSuffix(name) ==
  IF \E i \in 1..Len(name) :
       /\ name[i] # "."
       /\ \E j \in (i + 1)..Len(name) : name[j] = "."
    THEN LastDotSuffix(name)
    ELSE <<>>

\* The category whose extension set holds the lowercased suffix, else Others.
TableCategory(suffix) ==
  IF \E c \in CategoryNames : Lower(suffix) \in FILE_CATEGORIES[c]
    THEN CHOOSE c \in CategoryNames : Lower(suffix) \in FILE_CATEGORIES[c]
    ELSE "Others"

InCategoryFolder(id, c) ==
  c \in catDirs /\ \E n \in DOMAIN catFiles[c] : catFiles[c][n] = id

\* C2 as stated: every file organize moved lies in the folder of the category
\* of its last dot-suffix.
C2_Original ==
  op = "organize" =>
    \A k \in OkMoves :
      InCategoryFolder(moves[k].id, TableCategory(LastDotSuffix(moves[k].name)))

\* C2 (amended): every file organize moved lies directly in the folder of the
\* category of its last dot-suffix lowercased, the suffix being empty when only
\* dots precede the last dot (a file named .py goes to Others).
C2_MovedIntoCategoryOfExtension ==
  op = "organize" =>
    \A k \in OkMoves :
      InCategoryFolder(moves[k].id, TableCategory(ExtensionSuffix(moves[k].name)))

\* C2 witness: organize has moved archive.tar.gz and .py.
C2_Witness ==
  /\ Returned("organize")
  /\ \E k \in OkMoves :
       moves[k].name = <<"a","r","c","h","i","v","e",".","t","a","r",".","g","z">>
  /\ \E k \in OkMoves : moves[k].name = <<".","p","y">>

\* C3: when organize returns its counts, moved_files + skipped_files is
\* total_files, the number of regular files that lay directly under the root
\* when the call started.
C3_MovedPlusSkippedIsTotal ==
  Returned("organize") =>
    /\ result.stats.moved_files + result.stats.skipped_files
         = result.stats.total_files
    /\ result.stats.total_files = Cardinality(DOMAIN before.rootFiles)

\* C3 witness: an organize that moved a file and skipped another.
C3_Witness ==
  /\ Returned("organize")
  /\ result.stats.moved_files >= 1
  /\ result.stats.skipped_files >= 1

\* An undo has returned its counts right after an organize that returned its
\* counts on a folder in which no two files bore the same name.
UndoAfterOrganize ==
  /\ Returned("undo")
  /\ prev.op = "organize"
  /\ prev.kind = "stats"
  /\ prev.clean

RoundTripRestored ==
  /\ \A m \in prev.moved :
       m.name \in DOMAIN rootFiles /\ rootFiles[m.name] = m.id
  /\ \A c \in prev.created :
       c \in catDirs => DOMAIN catFiles[c] # {}

OrganizeTwice ==
  /\ Returned("organize")
  /\ prev.op = "organize"
  /\ prev.kind = "stats"

\* C5 as stated: the second of two organize calls in succession reports
\* total_files = 0.
C5_Original == OrganizeTwice => result.stats.total_files = 0

\* C5 (amended): the second of two organize calls in succession reports as
\* total_files the number of files the first call skipped (0 when the first
\* call moved every file).
C5_SecondTotalIsFirstSkipped ==
  OrganizeTwice => result.stats.total_files = prev.skipped

\* C5 witness: the first call moved a file and skipped another.
C5_Witness ==
  /\ OrganizeTwice
  /\ prev.moved # {}
  /\ prev.skipped >= 1

\* C6: no failure of a folder creation or of a move escapes organize: the call
\* always ends by returning a result.
C6_NoFailureEscapes == ~(op = "organize" /\ result.kind = "raised")

\* The name of the k-th file of the running batch.
BatchName(k) == IF op = "organize" THEN files[k] ELSE all_files[k].name

CallbackArguments ==
  \A k \in 1..Len(cbLog) : cbLog[k] = <<k, stats.total_files, BatchName(k)>>

\* C7 as stated: the callback is invoked once per file with (index, total,
\* name), each time after that file was processed and before the next move.
C7_Original ==
  op \in {"organize", "undo"} =>
    /\ CallbackArguments
    /\ Len(cbLog) <= Len(moves)
    /\ Len(moves) <= Len(cbLog) + 1

\* C7 (amended): the callback is invoked exactly once per file of the batch,
\* with (1-based index, total_files, filename), each time before that file's
\* move is attempted and after the previous file was processed.
C7_CallbackBeforeEachMove ==
  op \in {"organize", "undo"} =>
    /\ CallbackArguments
    /\ Len(moves) <= Len(cbLog)
    /\ Len(cbLog) <= Len(moves) + 1
    /\ pc \in {"organize_move", "undo_move"} => Len(cbLog) = Len(moves) + 1
    /\ Returned(op) => Len(cbLog) = result.stats.total_files

\* C7 witness: the callback has been invoked for the second file of an undo,
\* whose move is still to come.
C7_Witness ==
  /\ pc = "undo_move"
  /\ Len(cbLog) = 2
  /\ Len(moves) = 1

MovedInto(c) == {k \in OkMoves : moves[k].category = c}

\* C8 as stated: the categories of organize's result hold only categories that
\* received a file, and their values sum to moved_files.
C8_Original ==
  Returned("organize") =>
    /\ \A c \in DOMAIN result.stats.categories : result.stats.categories[c] >= 1
    /\ SumOver(result.stats.categories, DOMAIN result.stats.categories)
         = result.stats.moved_files

\* C8 (amended): the categories of organize's result hold an entry for every
\* category a file of the batch classifies to, its value the number of files
\* moved into it in this run (0 when every such move failed), and the values
\* sum to moved_files.
C8_CategoryCounts ==
  Returned("organize") =>
    /\ DOMAIN result.stats.categories
         = {TableCategory(ExtensionSuffix(n)) : n \in DOMAIN before.rootFiles}
    /\ \A c \in DOMAIN result.stats.categories :
         result.stats.categories[c] = Cardinality(MovedInto(c))
    /\ SumOver(result.stats.categories, DOMAIN result.stats.categories)
         = result.stats.moved_files

\* C8 witness: one category received a file, another has an entry of 0.
C8_Witness ==
  /\ Returned("organize")
  /\ \E c \in DOMAIN result.stats.categories : result.stats.categories[c] = 0
  /\ \E c \in DOMAIN result.stats.categories : result.stats.categories[c] >= 1

\* The names the claim gives a colliding file.
OrganizeStyle(name, n) ==
  SplitExt(name)[1] \o <<"_">> \o Str(n) \o SplitExt(name)[2]

RestoredStyle(name, n) ==
  SplitExt(name)[1] \o <<"_","r","e","s","t","o","r","e","d","_">> \o Str(n)
    \o SplitExt(name)[2]

ClaimedName(name, n) ==
  IF op = "organize" THEN OrganizeStyle(name, n) ELSE RestoredStyle(name, n)

\* C9: a file whose name is taken at its destination gets base_N.ext from
\* organize and base_restored_N.ext from undo, N the smallest integer >= 1
\* whose name is free; undo never gives it the name base_N.ext.
C9_CollisionNames ==
  \A k \in 1..Len(moves) :
    moves[k].name \in moves[k].taken =>
      /\ \E n \in 1..(Cardinality(moves[k].taken) + 1) :
           /\ moves[k].dest = ClaimedName(moves[k].name, n)
           /\ moves[k].dest \notin moves[k].taken
           /\ \A m \in 1..(n - 1) : ClaimedName(moves[k].name, m) \in moves[k].taken
      /\ op = "undo" =>
           \A n \in 1..(Cardinality(moves[k].taken) + 1) :
             moves[k].dest # OrganizeStyle(moves[k].name, n)

\* C9 witness: organize has put a.txt at Documents/a_2.txt.
C9_Witness ==
  /\ Returned("organize")
  /\ \E k \in OkMoves :
       /\ moves[k].name = <<"a",".","t","x","t">>
       /\ moves[k].dest = <<"a","_","2",".","t","x","t">>

\* C10: on a root folder that does not exist, organize and undo return the
\* error result, preview returns None, and the folder is left as it was.
C10_MissingRoot ==
  (pc = "idle" /\ op # "none" /\ ~before.rootExists) =>
    /\ result.kind = IF op = "preview" THEN "none" ELSE "error"
    /\ Folder = before
    /\ moves = <<>>
    /\ created = {}

\* C10 witness: organize, then undo, of a folder that does not exist.
C10_Witness ==
  /\ pc = "idle"
  /\ ~before.rootExists
  /\ op = "undo"
  /\ prev.op = "organize"
  /\ prev.kind = "error"
  /\ result.kind = "error"

====
